---- MODULE Spec2Model ----
(***************************************************************************)
(* Model of the exl spreadsheet <-> record mapping engine:                 *)
(*   ReadBinary (column binder + row materializer) and write0 (row         *)
(*   projector).  Cell texts are strings; the two localized boolean        *)
(*   tokens of the source (U+662F / U+5426) are written "shi" / "fou"      *)
(*   because the module is ASCII only.                                     *)
(***************************************************************************)
EXTENDS Integers, Sequences, FiniteSets, TLC

\* ------------------------------------------------------------------ bounds
\* number of columns of a directly supplied sheet (sheet.MaxCol)
NumCols == 2
\* largest number of data rows of a directly supplied sheet
MaxDataRows == 2
\* largest configured MaxUnmarshalErrors drawn under the collect policy
MaxCap == 2
\* largest number of records handed to write0
MaxRecords == 2

\* ------------------------------------------------------- program constants
\* defaultReadConfig: DataStartRowIndex, HeaderRowIndex, MaxUnmarshalErrors
DefaultDataStartRowIndex == 1
DefaultHeaderRowIndex == 0
DefaultMaxUnmarshalErrors == 10

\* UnmarshalErrorHandling enumeration
UnmarshalErrorIgnore == "ignore"
UnmarshalErrorAbort == "abort"
UnmarshalErrorCollect == "collect"

\* the localized boolean tokens compared in the row loop and emitted by write0
ChineseTrue == "shi"
ChineseFalse == "fou"

\* ------------------------------------------------------------ value model
\* a Go pointer field: nil, or a pointer to a value
Nil == <<>>
Ptr(v) == <<v>>
IsNil(p) == p = <<>>
Deref(p) == p[1]

Kinds == {"string", "int", "bool", "pstring", "pint", "pbool", "ptime", "chan"}
IsPtrKind(k) == k \in {"pstring", "pint", "pbool", "ptime"}
\* reflect: v.Type().Elem().Kind() of a pointer kind
ElemKind(k) ==
  CASE k = "pstring" -> "string"
    [] k = "pint" -> "int"
    [] k = "pbool" -> "bool"
    [] k = "ptime" -> "time"
    [] OTHER -> k

\* reflect.New(typ).Elem(): the zero value of a field of kind k
ZeroOf(k) ==
  CASE k = "string" -> ""
    [] k = "int" -> 0
    [] k = "bool" -> FALSE
    [] k = "time" -> 0
    [] OTHER -> Nil

\* ----------------------------------------------------------- record types
Field(n, t, h, k, e) == [name |-> n, tag |-> t, hasTag |-> h, kind |-> k, exported |-> e]

\* The record types T the generic functions are instantiated with.
TypeNames == {"Person", "Staff", "Event", "Misc"}
FieldsOf(T) ==
  CASE T = "Person" ->
         << Field("Name", "name", TRUE, "string", TRUE),
            Field("Age", "age", TRUE, "int", TRUE),
            Field("Active", "active", TRUE, "bool", TRUE) >>
    [] T = "Staff" ->
         << Field("Name", "name", TRUE, "pstring", TRUE),
            Field("Age", "age", TRUE, "pint", TRUE),
            Field("Active", "active", TRUE, "pbool", TRUE) >>
    [] T = "Event" ->
         << Field("Title", "title", TRUE, "string", TRUE),
            Field("Born", "born", TRUE, "ptime", TRUE) >>
    [] T = "Misc" ->
         << Field("Name", "name", TRUE, "string", TRUE),
            Field("Note", "", FALSE, "string", TRUE),
            Field("secret", "", FALSE, "int", FALSE),
            Field("Ch", "ch", TRUE, "chan", TRUE) >>
NumField(T) == Len(FieldsOf(T))

\* ------------------------------------------------------- text conversions
NumText == << "0", "1", "2", "3" >>
\* fmt.Sprintf("%d", n) / strconv.FormatFloat for the integers of the model
FormatInt(n) == NumText[n + 1]
IsNumText(t) == \E i \in 1..Len(NumText) : NumText[i] = t
\* strconv.ParseInt / strconv.ParseFloat: the number, for a numeric text
ParseNum(t) == (CHOOSE i \in 1..Len(NumText) : NumText[i] = t) - 1
\* strconv.ParseFloat(cell.Value, 10) with its error discarded: 0 on failure
ParseFloatOrZero(t) == IF IsNumText(t) THEN ParseNum(t) ELSE 0

\* strconv.ParseBool
BoolTrueTexts == {"1", "t", "T", "true", "TRUE", "True"}
BoolFalseTexts == {"0", "f", "F", "false", "FALSE", "False"}

Ok(v) == [ok |-> TRUE, v |-> v]
Fail(v) == [ok |-> FALSE, v |-> v]

\* DefaultUnmarshalFuncs[kind] on a non-pointer destination holding old:
\* the new field value, or a failure that leaves the field as it was
UnmarshalPrimitive(k, old, text) ==
  CASE k = "string" -> Ok(text)
    [] k = "int" -> IF IsNumText(text) THEN Ok(ParseNum(text)) ELSE Fail(old)
    [] k = "bool" -> IF text \in BoolTrueTexts THEN Ok(TRUE)
                     ELSE IF text \in BoolFalseTexts THEN Ok(FALSE)
                     ELSE Fail(old)
    [] OTHER -> Fail(old)

\* unmarshalPointer: the pointer is set to a fresh zero value first, then the
\* element routine runs on it and its error is returned
unmarshalPointer(k, text) ==
  LET r == UnmarshalPrimitive(ElemKind(k), ZeroOf(ElemKind(k)), text)
  IN  [ok |-> r.ok, v |-> Ptr(r.v)]

\* the kinds DefaultUnmarshalFuncs has a routine for
DefaultUnmarshalKinds == {"string", "int", "bool"}
\* the field types that reach the encoding.TextUnmarshaler branch: *time.Time
TextUnmarshalerKinds == {"ptime"}
\* GetUnmarshalFunc: whether a routine resolves for a field of kind k (for a
\* pointer kind, by the kind it points to)
HasUnmarshalFunc(k) == k \in TextUnmarshalerKinds \/ ElemKind(k) \in DefaultUnmarshalKinds

\* fi.unmarshalFunc(destField, cell, unmarshalConfig)
CallUnmarshalFunc(k, old, text) ==
  IF IsPtrKind(k) THEN unmarshalPointer(k, text) ELSE UnmarshalPrimitive(k, old, text)

\* ------------------------------------------------------------ drop lists
Pair(k, v) == [Key |-> k, Value |-> v]
\* a nil DropListMap (every lookup misses)
NoDropList == <<>>
\* a DropListMap with one entry, for the column tagged "name"
NameDropList == [name |-> << Pair("k1", "A"), Pair("k2", "B") >>]
DropLists == {NoDropList, NameDropList}
\* dropList, have := DropListMap[tag]
HaveDropList(m, tag) == tag \in DOMAIN m

\* read side: key := ""; for each pair whose Value is the cell text, key = Key
RECURSIVE DecodeLoop(_, _, _)
DecodeLoop(dropList, text, key) ==
  IF dropList = <<>> THEN key
  ELSE DecodeLoop(Tail(dropList), text,
                  IF Head(dropList).Value = text THEN Head(dropList).Key ELSE key)
DropListDecode(dropList, text) == DecodeLoop(dropList, text, "")

\* write side: value := key; for each pair whose Key is the key, value = Value
RECURSIVE EncodeLoop(_, _, _)
EncodeLoop(dropList, key, value) ==
  IF dropList = <<>> THEN value
  ELSE EncodeLoop(Tail(dropList), key,
                  IF Head(dropList).Key = key THEN Head(dropList).Value ELSE value)
EncodeNoLookup(dropList, key) == key
DropListEncode(dropList, key) == EncodeLoop(dropList, key, key)

\* ------------------------------------------------------------------ write0
\* the tag write0 looks up for field f: "" when the field has none
TagOf(f) == IF f.hasTag THEN f.tag ELSE ""

\* the header loop of write0
RECURSIVE HeaderFrom(_, _, _)
HeaderFrom(fields, i, wcfg) ==
  IF i > Len(fields) THEN <<>>
  ELSE LET f == fields[i]
           name == IF f.hasTag THEN f.tag ELSE f.name
       IN  IF ~f.exported THEN HeaderFrom(fields, i + 1, wcfg)
           ELSE IF f.hasTag \/ ~wcfg.SkipNoTag
                THEN <<name>> \o HeaderFrom(fields, i + 1, wcfg)
                ELSE HeaderFrom(fields, i + 1, wcfg)
WriteHeader(T, wcfg) == HeaderFrom(FieldsOf(T), 1, wcfg)

\* an element of data []any: its dynamic kind and its value
AnyOf(k, v) == [k |-> k, v |-> v]

\* step 2 of the field loop of write0 ("add special data") for one written field
ProjectField(f, v, wcfg) ==
  LET isPtr == IsPtrKind(f.kind)
      blank == isPtr /\ wcfg.SkipNilPointer /\ IsNil(v)
      stillNil == isPtr /\ IsNil(v)
      k == IF isPtr /\ ~IsNil(v) THEN ElemKind(f.kind) ELSE f.kind
      e == IF isPtr /\ ~IsNil(v) THEN Deref(v) ELSE v
  IN  IF blank THEN AnyOf("string", "")
      ELSE IF stillNil THEN AnyOf("nilptr", Nil)
      ELSE IF k = "bool"
           THEN IF wcfg.ChineseBool
                THEN AnyOf("string", IF e THEN ChineseTrue ELSE ChineseFalse)
                ELSE AnyOf("bool", e)
      ELSE IF k = "string" /\ HaveDropList(wcfg.DropListMap, TagOf(f))
           THEN AnyOf("string", DropListEncode(wcfg.DropListMap[TagOf(f)], e))
      ELSE AnyOf(k, e)

\* write: the text of the cell added for one element of data
\* (SetDateWithOptions for a time.Time, Cell.SetValue for the rest)
SetValue(a) ==
  CASE a.k = "string" -> a.v
    [] a.k = "int" -> FormatInt(a.v)
    [] a.k = "time" -> FormatInt(a.v)
    [] a.k = "bool" -> IF a.v THEN "true" ELSE "false"
    [] OTHER -> "<nil>"

\* whether write0 emits a column for field f
Written(f, wcfg) == f.exported /\ (f.hasTag \/ ~wcfg.SkipNoTag)

\* the data loop of write0 for one record
RECURSIVE DataFrom(_, _, _, _)
DataFrom(fields, i, rec, wcfg) ==
  IF i > Len(fields) THEN <<>>
  ELSE IF ~Written(fields[i], wcfg) THEN DataFrom(fields, i + 1, rec, wcfg)
  ELSE <<SetValue(ProjectField(fields[i], rec[i], wcfg))>>
       \o DataFrom(fields, i + 1, rec, wcfg)
WriteDataDropsBlank(T, rec, wcfg) ==
  SelectSeq(DataFrom(FieldsOf(T), 1, rec, wcfg), LAMBDA text : text # "")
WriteData(T, rec, wcfg) == DataFrom(FieldsOf(T), 1, rec, wcfg)

\* defaultWriteConfig() after WriteConfigure set the listed options
WriteConfig(skipNoTag, skipNil, dl, chinese) ==
  [ SkipNoTag |-> skipNoTag, SkipNilPointer |-> skipNil,
    DropListMap |-> dl, ChineseBool |-> chinese ]
defaultWriteConfig == WriteConfig(FALSE, FALSE, NoDropList, FALSE)

\* wc := defaultWriteConfig(); if len(ts) > 0 { ts[0].WriteConfigure(wc) }
ConfigureWith(recs, wcfg) == IF Len(recs) > 0 THEN wcfg ELSE defaultWriteConfig

\* write0: the rows appended to the new sheet, header first
write0(T, recs, wcfg) ==
  LET cfg == ConfigureWith(recs, wcfg)
  IN  <<WriteHeader(T, cfg)>> \o [i \in 1..Len(recs) |-> WriteData(T, recs[i], cfg)]

\* -------------------------------------------------------------- the state
VARIABLES
  T,                \* the record type the call is instantiated with
  wc,               \* the WriteConfig after WriteConfigure
  rc,               \* the ReadConfig after ReadConfigure
  filterFunc,       \* the row filter predicates passed to ReadBinary
  records,          \* the records handed to write0 (when the sheet is written)
  sheet,            \* the rows of the sheet, each a sequence of cell texts
  pc,               \* position: write, open, bind, cell, return, done, panic
  columnFields,     \* the binding plan built so far
  rowIndex,         \* 0-based index of the row being decoded
  columnIndex,      \* 0-based index of the next column
  val,              \* the record being populated
  ts,               \* the records appended so far
  collectedErrors,  \* the field errors collected so far
  filterCalls,      \* history: every filter call made, in order
  decoded,          \* history: every row whose column loop completed, as decoded
  result            \* what ReadBinary returned

vars == << T, wc, rc, filterFunc, records, sheet, pc, columnFields, rowIndex,
           columnIndex, val, ts, collectedErrors, filterCalls, decoded, result >>

\* ----------------------------------------------------------- sheet access
\* sheet.MaxRow, sheet.MaxCol
MaxRow == Len(sheet)
RECURSIVE MaxLen(_)
MaxLen(rows) ==
  IF rows = <<>> THEN 0
  ELSE LET m == MaxLen(Tail(rows))
       IN  IF Len(Head(rows)) > m THEN Len(Head(rows)) ELSE m
MaxCol == MaxLen(sheet)
\* row.GetCell(i).Value: a cell past the end of the row is empty
GetCell(row, i) == IF i + 1 <= Len(row) THEN row[i + 1] ELSE ""
\* readStrings(maxCol, headerRow)
readStrings(row) == [i \in 1..MaxCol |-> GetCell(row, i - 1)]
headers == readStrings(sheet[rc.HeaderRowIndex + 1])

\* ------------------------------------------------------------ column binder
\* tagToFieldMap: the tags of the type; a later field overwrites an earlier one
TagSet(Ty) == {FieldsOf(Ty)[i].tag : i \in {j \in 1..NumField(Ty) : FieldsOf(Ty)[j].hasTag}}
\* tagToFieldMap[header]: the 0-based reflection index
TagToField(Ty, header) ==
  (CHOOSE i \in 1..NumField(Ty) :
     /\ FieldsOf(Ty)[i].hasTag /\ FieldsOf(Ty)[i].tag = header
     /\ \A j \in 1..NumField(Ty) :
          (FieldsOf(Ty)[j].hasTag /\ FieldsOf(Ty)[j].tag = header) => j <= i) - 1

\* a fieldInfo: bound is "unmarshalFunc != nil"
FieldInfoKeepsFunc(idx, header, bound) ==
  [reflectFieldIndex |-> idx, header |-> header, bound |-> TRUE]
FieldInfo(idx, header, bound) == [reflectFieldIndex |-> idx, header |-> header, bound |-> bound]
\* the field a plan entry points to
FieldAt(fi) == FieldsOf(T)[fi.reflectFieldIndex + 1]

\* ---------------------------------------------------------------- results
\* ReadBinary's two return values: the records (nil: no records) and the error
NoError == [tag |-> "nil"]
NotReturned == [ts |-> <<>>, err |-> [tag |-> "pending"]]
StructuralError(e, header, col) == [tag |-> "error", err |-> e, header |-> header, index |-> col]
FieldError(row, col, header, err) ==
  [RowIndex |-> row, ColumnIndex |-> col, ColumnHeader |-> header, Err |-> err]
AbortError(fe) == [tag |-> "FieldError", fer |-> fe]
ContentError(errs, limit) == [tag |-> "ContentError", FieldErrors |-> errs, LimitReached |-> limit]

\* the failure a primitive routine reports: what could not be parsed as what
ParseError(k, text) == << "cannot parse", text, "as", ElemKind(k) >>

\* ---------------------------------------------------------------- filters
\* the predicates a caller may pass; "nil" is a nil func value
Keep(f, rec) ==
  CASE f = "first" -> rec[1] # ZeroOf(FieldsOf(T)[1].kind)
    [] f = "second" -> rec[2] # ZeroOf(FieldsOf(T)[2].kind)
    [] OTHER -> TRUE

\* the filter loop: the calls made for rec, stopping after the first rejection
RECURSIVE FilterLoopNoBreak(_, _, _)
FilterLoopNoBreak(fs, i, rec) ==
  IF i > Len(fs) THEN <<>>
  ELSE IF fs[i] = "nil" THEN FilterLoopNoBreak(fs, i + 1, rec)
  ELSE << [idx |-> i, keep |-> Keep(fs[i], rec)] >> \o FilterLoopNoBreak(fs, i + 1, rec)
RECURSIVE FilterLoop(_, _, _)
FilterLoop(fs, i, rec) ==
  IF i > Len(fs) THEN <<>>
  ELSE IF fs[i] = "nil" THEN FilterLoop(fs, i + 1, rec)
  ELSE IF ~Keep(fs[i], rec) THEN << [idx |-> i, keep |-> FALSE] >>
  ELSE << [idx |-> i, keep |-> TRUE] >> \o FilterLoop(fs, i + 1, rec)
\* add: no call made, or the last call made returned keep
Add(calls) == calls = <<>> \/ calls[Len(calls)].keep

\* ----------------------------------------------------------------- inputs
\* the cell texts drawn for a column, by the kind of the field its header binds
\* ("none": no field): empty, numeric, a drop-list display value, the two tokens
CellTexts(k) ==
  CASE k = "string" -> {"1", "A"}
    [] k = "pstring" -> {"", "1", "A"}
    [] k = "int" -> {"1", "A"}
    [] k = "pint" -> {"", "1"}
    [] k = "ptime" -> {"", "1", "A"}
    [] k = "bool" -> {"1", "A", ChineseTrue, ChineseFalse}
    [] k = "pbool" -> {"A", ChineseTrue, ChineseFalse}
    [] OTHER -> {"A"}
KindOfHeader(Ty, h) ==
  IF h \in TagSet(Ty) THEN FieldsOf(Ty)[TagToField(Ty, h) + 1].kind ELSE "none"
\* header rows drawn when the data rows vary
HeaderRows(Ty) ==
  CASE Ty = "Person" -> { <<"name", "age">>, <<"age", "active">> }
    [] Ty = "Staff" -> { <<"name", "age">>, <<"age", "active">> }
    [] Ty = "Event" -> { <<"born", "title">> }
    [] Ty = "Misc" -> { <<"name", "zz">> }
\* every header row over the tags of the type and one unknown header
AllHeaderRows(Ty) == [1..NumCols -> TagSet(Ty) \cup {"zz"}]
DataRow(Ty, h) == {r \in [1..Len(h) -> UNION {CellTexts(k) : k \in Kinds \cup {"none"}}] :
                     \A c \in 1..Len(h) : r[c] \in CellTexts(KindOfHeader(Ty, h[c]))}
RECURSIVE SeqsUpTo(_, _)
SeqsUpTo(S, n) ==
  IF n = 0 THEN {<<>>}
  ELSE LET shorter == SeqsUpTo(S, n - 1)
       IN  shorter \cup {Append(q, x) : q \in {p \in shorter : Len(p) = n - 1}, x \in S}

FilterLists == { <<>>, <<"nil", "first", "second">> }

\* defaultReadConfig() after ReadConfigure set the listed options
ReadConfig(policy, cap, skipCols, skipTypes, dl, canNil) ==
  [ HeaderRowIndex |-> DefaultHeaderRowIndex,
    DataStartRowIndex |-> DefaultDataStartRowIndex,
    SkipUnknownColumns |-> skipCols,
    SkipUnknownTypes |-> skipTypes,
    UnmarshalErrorHandling |-> policy,
    MaxUnmarshalErrors |-> cap,
    DropListMap |-> dl,
    PointerCanNil |-> canNil ]
defaultReadConfig ==
  ReadConfig(UnmarshalErrorAbort, DefaultMaxUnmarshalErrors, TRUE, FALSE, NoDropList, FALSE)
Policies ==
  { <<UnmarshalErrorIgnore, DefaultMaxUnmarshalErrors>>,
    <<UnmarshalErrorAbort, DefaultMaxUnmarshalErrors>> }
  \cup { <<UnmarshalErrorCollect, n>> : n \in 0..MaxCap }

\* the field values records are drawn from
FieldValues(k) ==
  CASE k = "string" -> {"k1", "x"}
    [] k = "int" -> {0, 1}
    [] k = "bool" -> {FALSE, TRUE}
    [] k = "pstring" -> {Nil, Ptr("k1")}
    [] k = "pint" -> {Nil, Ptr(1)}
    [] k = "pbool" -> {Nil, Ptr(TRUE)}
    [] k = "ptime" -> {Nil, Ptr(1)}
    [] OTHER -> {Nil}
RECURSIVE RecordsFrom(_, _)
RecordsFrom(fields, i) ==
  IF i > Len(fields) THEN {<<>>}
  ELSE LET vs == IF fields[i].exported THEN FieldValues(fields[i].kind)
                 ELSE {ZeroOf(fields[i].kind)}
       IN  {<<v>> \o r : v \in vs, r \in RecordsFrom(fields, i + 1)}
RecordsOf(Ty) == RecordsFrom(FieldsOf(Ty), 1)
\* var t T; reflect.New(typ).Elem()
ZeroRecord(Ty) == [i \in 1..NumField(Ty) |-> ZeroOf(FieldsOf(Ty)[i].kind)]

\* ------------------------------------------------------------------- Init
Idle ==
  /\ columnFields = <<>> /\ rowIndex = 0 /\ columnIndex = 0
  /\ val = <<>> /\ ts = <<>> /\ collectedErrors = <<>>
  /\ filterCalls = <<>> /\ decoded = <<>>
  /\ result = NotReturned

\* ReadBinary on a supplied sheet whose data rows vary
InitRows ==
  /\ T \in TypeNames
  /\ wc = defaultWriteConfig
  /\ records = <<>>
  /\ \E p \in Policies, dl \in DropLists, canNil \in BOOLEAN :
       rc = ReadConfig(p[1], p[2], TRUE, FALSE, dl, canNil)
  /\ filterFunc \in FilterLists
  /\ \E h \in HeaderRows(T) : \E d \in SeqsUpTo(DataRow(T, h), MaxDataRows) :
       sheet = <<h>> \o d
  /\ pc = "open"
  /\ Idle

\* ReadBinary on a supplied sheet whose header row and skip options vary
InitHeaders ==
  /\ T \in TypeNames
  /\ wc = defaultWriteConfig
  /\ records = <<>>
  /\ \E skipCols \in BOOLEAN, skipTypes \in BOOLEAN :
       rc = ReadConfig(UnmarshalErrorAbort, DefaultMaxUnmarshalErrors,
                       skipCols, skipTypes, NoDropList, FALSE)
  /\ filterFunc = <<>>
  /\ \/ sheet = <<>>
     \/ \E h \in AllHeaderRows(T) : sheet = << h, [c \in 1..NumCols |-> "1"] >>
  /\ pc = "open"
  /\ Idle

\* write0 on a record sequence, then ReadBinary on the sheet it produced, with
\* the same drop-list table on both sides
InitRecords ==
  /\ T \in TypeNames
  /\ \E dl \in DropLists :
       /\ \E skipNoTag \in BOOLEAN, skipNil \in BOOLEAN, chinese \in BOOLEAN :
            wc = WriteConfig(skipNoTag, skipNil, dl, chinese)
       /\ \E canNil \in BOOLEAN :
            rc = ReadConfig(UnmarshalErrorAbort, DefaultMaxUnmarshalErrors,
                            TRUE, FALSE, dl, canNil)
  /\ filterFunc = <<>>
  /\ records \in SeqsUpTo(RecordsOf(T), MaxRecords)
  /\ sheet = <<>>
  /\ pc = "write"
  /\ Idle

Init == InitRows \/ InitHeaders \/ InitRecords

\* ---------------------------------------------------------------- actions
\* WriteTo / WriteFile: write0 fills the sheet that is then read back
Write ==
  /\ pc = "write"
  /\ sheet' = write0(T, records, wc)
  /\ pc' = "open"
  /\ UNCHANGED << T, wc, rc, filterFunc, records, columnFields, rowIndex, columnIndex,
                  val, ts, collectedErrors, filterCalls, decoded, result >>

\* return rs, e
Return(rs, e) ==
  /\ pc' = "done"
  /\ result' = [ts |-> rs, err |-> e]

\* ReadBinary: the header and data-start index checks
OpenHeaderRowOutOfRange ==
  /\ pc = "open"
  /\ rc.HeaderRowIndex < 0 \/ rc.HeaderRowIndex > MaxRow - 1
  /\ Return(<<>>, StructuralError("ErrHeaderRowIndexOutOfRange", "", 0))
  /\ UNCHANGED << T, wc, rc, filterFunc, records, sheet, columnFields, rowIndex,
                  columnIndex, val, ts, collectedErrors, filterCalls, decoded >>

OpenDataStartRowOutOfRange ==
  /\ pc = "open"
  /\ ~(rc.HeaderRowIndex < 0 \/ rc.HeaderRowIndex > MaxRow - 1)
  /\ rc.DataStartRowIndex < 0 \/ rc.DataStartRowIndex > MaxRow - 1
  /\ Return(<<>>, StructuralError("ErrDataStartRowIndexOutOfRange", "", 0))
  /\ UNCHANGED << T, wc, rc, filterFunc, records, sheet, columnFields, rowIndex,
                  columnIndex, val, ts, collectedErrors, filterCalls, decoded >>

\* the position after the binder handled the last header: the row loop skips
\* the rows before DataStartRowIndex
AfterBind(n) ==
  IF n < Len(headers)
  THEN /\ pc' = "bind" /\ columnIndex' = n
       /\ UNCHANGED << rowIndex, val >>
  ELSE /\ pc' = "cell" /\ columnIndex' = 0
       /\ rowIndex' = rc.DataStartRowIndex
       /\ val' = ZeroRecord(T)

OpenOk ==
  /\ pc = "open"
  /\ ~(rc.HeaderRowIndex < 0 \/ rc.HeaderRowIndex > MaxRow - 1)
  /\ ~(rc.DataStartRowIndex < 0 \/ rc.DataStartRowIndex > MaxRow - 1)
  /\ AfterBind(0)
  /\ UNCHANGED << T, wc, rc, filterFunc, records, sheet, columnFields,
                  ts, collectedErrors, filterCalls, decoded, result >>

\* one iteration of the binder loop over the headers
BindingFrame ==
  UNCHANGED << T, wc, rc, filterFunc, records, sheet, ts, collectedErrors, filterCalls, decoded >>

BindSkipUnknownColumn ==
  /\ pc = "bind"
  /\ LET header == headers[columnIndex + 1] IN
       /\ header \notin TagSet(T)
       /\ rc.SkipUnknownColumns
       /\ columnFields' = Append(columnFields, FieldInfo(0, header, FALSE))
  /\ AfterBind(columnIndex + 1)
  /\ UNCHANGED result
  /\ BindingFrame

BindNoDestinationField ==
  /\ pc = "bind"
  /\ LET header == headers[columnIndex + 1] IN
       /\ header \notin TagSet(T)
       /\ ~rc.SkipUnknownColumns
       /\ Return(<<>>, StructuralError("ErrNoDestinationField", header, columnIndex))
  /\ UNCHANGED << columnFields, rowIndex, columnIndex, val >>
  /\ BindingFrame

BindSkipUnknownType ==
  /\ pc = "bind"
  /\ LET header == headers[columnIndex + 1] IN
       /\ header \in TagSet(T)
       /\ ~HasUnmarshalFunc(FieldsOf(T)[TagToField(T, header) + 1].kind)
       /\ rc.SkipUnknownTypes
       /\ columnFields' = Append(columnFields, FieldInfo(TagToField(T, header), header, FALSE))
  /\ AfterBind(columnIndex + 1)
  /\ UNCHANGED result
  /\ BindingFrame

BindNoUnmarshaler ==
  /\ pc = "bind"
  /\ LET header == headers[columnIndex + 1] IN
       /\ header \in TagSet(T)
       /\ ~HasUnmarshalFunc(FieldsOf(T)[TagToField(T, header) + 1].kind)
       /\ ~rc.SkipUnknownTypes
       /\ Return(<<>>, StructuralError("ErrNoUnmarshaler", header, columnIndex))
  /\ UNCHANGED << columnFields, rowIndex, columnIndex, val >>
  /\ BindingFrame

BindField ==
  /\ pc = "bind"
  /\ LET header == headers[columnIndex + 1] IN
       /\ header \in TagSet(T)
       /\ HasUnmarshalFunc(FieldsOf(T)[TagToField(T, header) + 1].kind)
       /\ columnFields' = Append(columnFields, FieldInfo(TagToField(T, header), header, TRUE))
  /\ AfterBind(columnIndex + 1)
  /\ UNCHANGED result
  /\ BindingFrame

\* ----------------------------------------------------- the row materializer
\* cell := row.GetCell(columnIndex) of row r, column c (0-based)
CellValue(r, c) == GetCell(sheet[r + 1], c)
DestKind(c) == FieldAt(columnFields[c + 1]).kind
\* destField.CanSet()
CanSet(c) == FieldAt(columnFields[c + 1]).exported

\* the branch of the column loop body that handles the cell at (r, c):
\* the conditions are tried in the order of the source
RouteOf(r, c) ==
  LET fi == columnFields[c + 1]
      k == DestKind(c)
      text == CellValue(r, c)
  IN  IF ~fi.bound THEN "skip"
      ELSE IF rc.PointerCanNil /\ IsPtrKind(k) /\ text = "" THEN "nil"
      ELSE IF k = "ptime" /\ CanSet(c) THEN "time"
      ELSE IF ElemKind(k) = "bool" /\ CanSet(c) /\ text \in {ChineseTrue, ChineseFalse}
           THEN "chinese"
      ELSE IF ElemKind(k) = "string" /\ CanSet(c) /\ HaveDropList(rc.DropListMap, fi.header)
           THEN "droplist"
      ELSE "unmarshal"

InCell == pc = "cell" /\ columnIndex < Len(columnFields)
CellRoute == RouteOf(rowIndex, columnIndex)
cell == CellValue(rowIndex, columnIndex)
\* 1-based position in val of the field the current column is bound to
dest == columnFields[columnIndex + 1].reflectFieldIndex + 1

\* destField.Set...(v); continue
SetAndContinue(v) ==
  /\ val' = [val EXCEPT ![dest] = v]
  /\ columnIndex' = columnIndex + 1
  /\ UNCHANGED << pc, rowIndex, result >>

CellFrame ==
  UNCHANGED << T, wc, rc, filterFunc, records, sheet, columnFields, ts, filterCalls, decoded >>

\* fi.unmarshalFunc == nil: continue
CellSkipped ==
  /\ InCell /\ CellRoute = "skip"
  /\ columnIndex' = columnIndex + 1
  /\ UNCHANGED << pc, rowIndex, result, val, collectedErrors >>
  /\ CellFrame

\* rc.PointerCanNil, a pointer field and an empty cell: continue
CellNilOnEmpty ==
  /\ InCell /\ CellRoute = "nil"
  /\ columnIndex' = columnIndex + 1
  /\ UNCHANGED << pc, rowIndex, result, val, collectedErrors >>
  /\ CellFrame

\* *time.Time: ParseFloat with its error dropped, TimeFromExcelTime, Set
CellPointerTime ==
  /\ InCell /\ CellRoute = "time"
  /\ SetAndContinue(Ptr(ParseFloatOrZero(cell)))
  /\ UNCHANGED collectedErrors
  /\ CellFrame

\* bool: SetBool(true) for the true token, SetBool(false) for the false token
CellChineseBool ==
  /\ InCell /\ CellRoute = "chinese"
  /\ ~IsPtrKind(DestKind(columnIndex))
  /\ SetAndContinue(cell = ChineseTrue)
  /\ UNCHANGED collectedErrors
  /\ CellFrame

\* *bool: destField.Set(reflect.ValueOf(&cell.Value)) hands a *string to a
\* *bool field; reflect.Value.Set panics (value not assignable)
CellChineseBoolPointer ==
  /\ InCell /\ CellRoute = "chinese"
  /\ IsPtrKind(DestKind(columnIndex))
  /\ pc' = "panic"
  /\ UNCHANGED << rowIndex, columnIndex, val, result, collectedErrors >>
  /\ CellFrame

\* string / *string with a drop list for the header: the decoded key is stored
CellDropList ==
  /\ InCell /\ CellRoute = "droplist"
  /\ LET key == DropListDecode(rc.DropListMap[columnFields[columnIndex + 1].header], cell)
     IN  SetAndContinue(IF IsPtrKind(DestKind(columnIndex)) THEN Ptr(key) ELSE key)
  /\ UNCHANGED collectedErrors
  /\ CellFrame

\* err = fi.unmarshalFunc(destField, cell, unmarshalConfig)
Unmarshalled == CallUnmarshalFunc(DestKind(columnIndex), val[dest], cell)
FieldErrorSwapped ==
  FieldError(columnIndex, rowIndex, columnFields[columnIndex + 1].header,
             ParseError(DestKind(columnIndex), cell))
NewFieldError ==
  FieldError(rowIndex, columnIndex, columnFields[columnIndex + 1].header,
             ParseError(DestKind(columnIndex), cell))
\* rc.MaxUnmarshalErrors > 0 && uint64(len(collectedErrors)) >= rc.MaxUnmarshalErrors
LimitOffByOne(n) == rc.MaxUnmarshalErrors > 0 /\ n > rc.MaxUnmarshalErrors
LimitIgnoresZero(n) == n >= rc.MaxUnmarshalErrors
LimitReached(n) == rc.MaxUnmarshalErrors > 0 /\ n >= rc.MaxUnmarshalErrors

CellUnmarshalOk ==
  /\ InCell /\ CellRoute = "unmarshal"
  /\ Unmarshalled.ok
  /\ SetAndContinue(Unmarshalled.v)
  /\ UNCHANGED collectedErrors
  /\ CellFrame

\* err != nil under UnmarshalErrorIgnore: nothing is reported
CellUnmarshalErrorIgnored ==
  /\ InCell /\ CellRoute = "unmarshal"
  /\ ~Unmarshalled.ok
  /\ rc.UnmarshalErrorHandling = UnmarshalErrorIgnore
  /\ SetAndContinue(Unmarshalled.v)
  /\ UNCHANGED collectedErrors
  /\ CellFrame

\* err != nil under UnmarshalErrorAbort: return nil, fer
CellUnmarshalErrorAbort ==
  /\ InCell /\ CellRoute = "unmarshal"
  /\ ~Unmarshalled.ok
  /\ rc.UnmarshalErrorHandling = UnmarshalErrorAbort
  /\ val' = [val EXCEPT ![dest] = Unmarshalled.v]
  /\ Return(<<>>, AbortError(NewFieldError))
  /\ UNCHANGED << rowIndex, columnIndex, collectedErrors >>
  /\ CellFrame

\* err != nil under UnmarshalErrorCollect, the cap not reached: continue
CellUnmarshalErrorCollect ==
  /\ InCell /\ CellRoute = "unmarshal"
  /\ ~Unmarshalled.ok
  /\ rc.UnmarshalErrorHandling = UnmarshalErrorCollect
  /\ collectedErrors' = Append(collectedErrors, NewFieldError)
  /\ ~LimitReached(Len(collectedErrors'))
  /\ SetAndContinue(Unmarshalled.v)
  /\ CellFrame

\* err != nil under UnmarshalErrorCollect, the cap reached: return the aggregate
CellUnmarshalErrorLimit ==
  /\ InCell /\ CellRoute = "unmarshal"
  /\ ~Unmarshalled.ok
  /\ rc.UnmarshalErrorHandling = UnmarshalErrorCollect
  /\ collectedErrors' = Append(collectedErrors, NewFieldError)
  /\ LimitReached(Len(collectedErrors'))
  /\ val' = [val EXCEPT ![dest] = Unmarshalled.v]
  /\ Return(<<>>, ContentError(collectedErrors', TRUE))
  /\ UNCHANGED << rowIndex, columnIndex >>
  /\ CellFrame

\* after the last column: the filters are run on the row, it is appended when
\* add is still true, and the row loop moves on
FilterRow ==
  /\ pc = "cell" /\ columnIndex = Len(columnFields)
  /\ LET calls == FilterLoop(filterFunc, 1, val) IN
       /\ filterCalls' = filterCalls \o
            [i \in 1..Len(calls) |-> [row |-> rowIndex, idx |-> calls[i].idx, keep |-> calls[i].keep]]
       /\ ts' = IF Add(calls) THEN Append(ts, val) ELSE ts
       /\ decoded' = Append(decoded, [row |-> rowIndex, rec |-> val])
  /\ IF rowIndex + 1 < MaxRow
     THEN /\ rowIndex' = rowIndex + 1 /\ columnIndex' = 0
          /\ val' = ZeroRecord(T) /\ pc' = "cell"
     ELSE /\ pc' = "return"
          /\ UNCHANGED << rowIndex, columnIndex, val >>
  /\ UNCHANGED << T, wc, rc, filterFunc, records, sheet, columnFields, collectedErrors, result >>

\* after the row loop: the collected errors, or the records
ReturnContentError ==
  /\ pc = "return"
  /\ Len(collectedErrors) > 0
  /\ Return(<<>>, ContentError(collectedErrors, FALSE))
  /\ UNCHANGED << T, wc, rc, filterFunc, records, sheet, columnFields, rowIndex,
                  columnIndex, val, ts, collectedErrors, filterCalls, decoded >>

ReturnRecords ==
  /\ pc = "return"
  /\ Len(collectedErrors) = 0
  /\ Return(ts, NoError)
  /\ UNCHANGED << T, wc, rc, filterFunc, records, sheet, columnFields, rowIndex,
                  columnIndex, val, ts, collectedErrors, filterCalls, decoded >>

Next ==
  \/ Write
  \/ OpenHeaderRowOutOfRange
  \/ OpenDataStartRowOutOfRange
  \/ OpenOk
  \/ BindSkipUnknownColumn
  \/ BindNoDestinationField
  \/ BindSkipUnknownType
  \/ BindNoUnmarshaler
  \/ BindField
  \/ CellSkipped
  \/ CellNilOnEmpty
  \/ CellPointerTime
  \/ CellChineseBool
  \/ CellChineseBoolPointer
  \/ CellDropList
  \/ CellUnmarshalOk
  \/ CellUnmarshalErrorIgnored
  \/ CellUnmarshalErrorAbort
  \/ CellUnmarshalErrorCollect
  \/ CellUnmarshalErrorLimit
  \/ FilterRow
  \/ ReturnContentError
  \/ ReturnRecords

Spec == Init /\ [][Next]_vars

\* ------------------------------------------------- vocabulary of the claims
\* the binding plan is complete: the binder handled every header without failing
PlanBuilt == pc \in {"cell", "return", "panic"} \/ (pc = "done" /\ result.err.tag # "error")
\* the data cells in the order the row loop visits them: row, then column
DataCells ==
  LET n == Len(columnFields)
      rows == MaxRow - rc.DataStartRowIndex
  IN  [i \in 1..(rows * n) |-> << rc.DataStartRowIndex + ((i - 1) \div n), (i - 1) % n >>]
\* the cell is one whose conversion fails: it reaches the bound routine, which
\* reports an error
FailsAt(p) ==
  /\ RouteOf(p[1], p[2]) = "unmarshal"
  /\ ~CallUnmarshalFunc(DestKind(p[2]), ZeroOf(DestKind(p[2])), CellValue(p[1], p[2])).ok
FailingCells == SelectSeq(DataCells, FailsAt)
\* the call ended at the current cell: by an abort, or by reaching the cap
EndedAtCell ==
  /\ pc = "done"
  /\ \/ result.err.tag = "FieldError"
     \/ (result.err.tag = "ContentError" /\ result.err.LimitReached)
\* the column loop body has run for the cell
Visited(p) ==
  \/ p[1] < rowIndex
  \/ (p[1] = rowIndex /\ p[2] < columnIndex)
  \/ (p[1] = rowIndex /\ p[2] = columnIndex /\ EndedAtCell)
Positions(errs) == [i \in 1..Len(errs) |-> << errs[i].RowIndex, errs[i].ColumnIndex >>]
\* the field error the source builds for the failing cell p
ErrorOf(p) ==
  FieldError(p[1], p[2], headers[p[2] + 1], ParseError(DestKind(p[2]), CellValue(p[1], p[2])))
Collecting == rc.UnmarshalErrorHandling = UnmarshalErrorCollect

\* ----------------------------------------------------------------- claims
\* C1: under the collect policy with a cap N > 0, the collected errors are at
\* every moment the failing cells visited so far, in row-then-column order, and
\* never more than N; once a sheet with more than N failing cells has made the
\* call return, it returned no records and a ContentError with LimitReached
\* true holding exactly the first N failing cells, and the call stopped at the
\* N-th failing cell: no later cell was visited.
C1_CapReached ==
  (PlanBuilt /\ Collecting /\ rc.MaxUnmarshalErrors > 0) =>
    /\ Len(collectedErrors) <= rc.MaxUnmarshalErrors
    /\ Positions(collectedErrors) = SelectSeq(FailingCells, Visited)
    /\ (pc = "done" /\ Len(FailingCells) > rc.MaxUnmarshalErrors) =>
         /\ result.ts = <<>>
         /\ result.err = ContentError(collectedErrors, TRUE)
         /\ collectedErrors =
              [i \in 1..rc.MaxUnmarshalErrors |-> ErrorOf(FailingCells[i])]
         /\ << rowIndex, columnIndex >> = FailingCells[rc.MaxUnmarshalErrors]
         /\ \A i \in 1..Len(DataCells) : Visited(DataCells[i]) =>
              \E j \in i..Len(DataCells) :
                 DataCells[j] = FailingCells[rc.MaxUnmarshalErrors]

\* C1 witness: a call under collect with cap 2 returned at the cap on a sheet
\* with three failing cells
C1_Witness ==
  /\ pc = "done" /\ Collecting /\ rc.MaxUnmarshalErrors = 2
  /\ result.err.tag = "ContentError"
  /\ Len(FailingCells) = 3
  /\ Len(result.err.FieldErrors) = 2

\* C2: under the collect policy, when the cap is not reached (no cap, or fewer
\* failing cells than the cap), a call that returns has run the column loop
\* and the filters for every data row from DataStartRowIndex to the last row;
\* with at least one failing cell it returns no records and a ContentError
\* with LimitReached false holding one field error per failing cell, in order;
\* with none it returns the appended records and no error.  It never returns
\* records together with an error.
C2_CapNotReached ==
  (PlanBuilt /\ Collecting /\ pc = "done"
     /\ (rc.MaxUnmarshalErrors = 0 \/ Len(FailingCells) < rc.MaxUnmarshalErrors)) =>
    /\ Len(decoded) = MaxRow - rc.DataStartRowIndex
    /\ \A i \in 1..Len(decoded) : decoded[i].row = rc.DataStartRowIndex + i - 1
    /\ \A i \in 1..Len(DataCells) : Visited(DataCells[i])
    /\ IF FailingCells # <<>>
       THEN /\ result.ts = <<>>
            /\ result.err =
                 ContentError([i \in 1..Len(FailingCells) |-> ErrorOf(FailingCells[i])], FALSE)
       ELSE result = [ts |-> ts, err |-> NoError]
    /\ ~(result.ts # <<>> /\ result.err.tag # "nil")

\* C2 witness: with no cap, three failing cells (more than any drawn cap) were
\* all collected, a row was appended meanwhile, and the call returned them
C2_Witness ==
  /\ pc = "done" /\ Collecting /\ rc.MaxUnmarshalErrors = 0
  /\ result.err.tag = "ContentError"
  /\ ~result.err.LimitReached
  /\ Len(result.err.FieldErrors) = 3
  /\ ts # <<>>

\* C3: under the abort policy a failing cell is visited only as the first
\* failing cell in row-then-column order, and visiting it ends the call there:
\* the call returns no records and the FieldError of that cell (its row, column,
\* header and underlying failure), no later cell is visited, and no filter was
\* called and no row completed for the failing row or a later one.  A
\* FieldError is returned under no other policy.
C3_AbortStopsAtFirstFailure ==
  /\ (PlanBuilt /\ rc.UnmarshalErrorHandling = UnmarshalErrorAbort) =>
       \A i \in 1..Len(FailingCells) :
          LET p == FailingCells[i] IN
            Visited(p) =>
              /\ i = 1
              /\ pc = "done"
              /\ << rowIndex, columnIndex >> = p
              /\ result = [ts |-> <<>>, err |-> AbortError(ErrorOf(p))]
              /\ \A j \in 1..Len(filterCalls) : filterCalls[j].row < p[1]
              /\ \A j \in 1..Len(decoded) : decoded[j].row < p[1]
  /\ (pc = "done" /\ result.err.tag = "FieldError") =>
       /\ rc.UnmarshalErrorHandling = UnmarshalErrorAbort
       /\ FailingCells # <<>>
       /\ << rowIndex, columnIndex >> = FailingCells[1]
  /\ (pc = "done" /\ rc.UnmarshalErrorHandling = UnmarshalErrorAbort
        /\ result.err.tag = "nil") => FailingCells = <<>>

\* C3 witness: an abort in the second column of the second data row, after the
\* first data row went through the filters
C3_Witness ==
  /\ pc = "done" /\ result.err.tag = "FieldError"
  /\ result.err.fer.RowIndex = 2 /\ result.err.fer.ColumnIndex = 1
  /\ filterCalls # <<>>

\* the columns of the current row whose cell the column loop has handled
DoneColumns == {c \in 0..(Len(columnFields) - 1) : c < columnIndex}
\* the field of val that column c is bound to
ValAt(c) == val[columnFields[c + 1].reflectFieldIndex + 1]
\* the nil-on-empty rule applies to the cell: nothing is converted
NilOnEmpty(r, c) == rc.PointerCanNil /\ IsPtrKind(DestKind(c)) /\ CellValue(r, c) = ""

\* C4: under the ignore policy a cell whose conversion fails leaves its field at
\* the zero value (nil for a pointer field), the rest of the sheet is still
\* processed (a call that returns has completed every data row), and neither a
\* FieldError nor a ContentError is ever returned.
C4_IgnoreLeavesZero ==
  (PlanBuilt /\ rc.UnmarshalErrorHandling = UnmarshalErrorIgnore) =>
    /\ \A c \in DoneColumns :
         FailsAt(<< rowIndex, c >>) => ValAt(c) = ZeroOf(DestKind(c))
    /\ result.err.tag \notin {"FieldError", "ContentError"}
    /\ pc = "done" => Len(decoded) = MaxRow - rc.DataStartRowIndex

\* C5: for a string or nullable-string column whose header has a drop-list
\* entry, a cell text equal to a display value of the entry is decoded to the
\* key of that pair, and any other cell text is stored unchanged.
C5_DropListDecode ==
  PlanBuilt =>
    \A c \in DoneColumns :
      LET fi == columnFields[c + 1]
          text == CellValue(rowIndex, c)
      IN  (/\ fi.bound
           /\ ElemKind(DestKind(c)) = "string"
           /\ HaveDropList(rc.DropListMap, fi.header)
           /\ ~NilOnEmpty(rowIndex, c)) =>
            LET dl == rc.DropListMap[fi.header]
                isDisplay == \E i \in 1..Len(dl) : dl[i].Value = text
                want == IF isDisplay
                        THEN (CHOOSE i \in 1..Len(dl) : dl[i].Value = text)
                        ELSE 0
                expected == IF isDisplay THEN dl[want].Key ELSE text
            IN  ValAt(c) = (IF IsPtrKind(DestKind(c)) THEN Ptr(expected) ELSE expected)

\* C6: for a boolean or nullable-boolean column, a cell holding the localized
\* true token decodes to true and one holding the localized false token to
\* false (a non-nil pointer to that boolean for the nullable form), without
\* error: the call does not fail on such a cell.
C6_ChineseBool ==
  /\ pc # "panic"
  /\ PlanBuilt =>
       \A c \in DoneColumns :
         LET text == CellValue(rowIndex, c) IN
           (/\ columnFields[c + 1].bound
            /\ ElemKind(DestKind(c)) = "bool"
            /\ text \in {ChineseTrue, ChineseFalse}) =>
             ValAt(c) = (IF IsPtrKind(DestKind(c)) THEN Ptr(text = ChineseTrue)
                         ELSE (text = ChineseTrue))

\* every non-nil predicate keeps rec
KeptByAll(rec) ==
  \A j \in 1..Len(filterFunc) : filterFunc[j] # "nil" => Keep(filterFunc[j], rec)
\* no predicate declared before the j-th rejects rec
NoneBeforeRejects(j, rec) ==
  \A i \in 1..(j - 1) : filterFunc[i] # "nil" => Keep(filterFunc[i], rec)
KeptRow(d) == KeptByAll(d.rec)

\* C7: the appended records are exactly the decoded rows that every non-nil
\* predicate keeps, in ascending row order and with nothing in between; a
\* predicate is called on a row only if it is non-nil and no predicate declared
\* before it rejects the row, every such predicate is called, and the calls
\* are made in declared order.
C7_Filters ==
  /\ LET kept == SelectSeq(decoded, KeptRow)
     IN  ts = [i \in 1..Len(kept) |-> kept[i].rec]
  /\ \A i, j \in 1..Len(decoded) : i < j => decoded[i].row < decoded[j].row
  /\ \A k \in 1..Len(filterCalls) :
       LET call == filterCalls[k] IN
         \E i \in 1..Len(decoded) :
            /\ decoded[i].row = call.row
            /\ filterFunc[call.idx] # "nil"
            /\ call.keep = Keep(filterFunc[call.idx], decoded[i].rec)
            /\ NoneBeforeRejects(call.idx, decoded[i].rec)
  /\ \A i \in 1..Len(decoded) : \A j \in 1..Len(filterFunc) :
       (filterFunc[j] # "nil" /\ NoneBeforeRejects(j, decoded[i].rec)) =>
         \E k \in 1..Len(filterCalls) :
            filterCalls[k].row = decoded[i].row /\ filterCalls[k].idx = j
  /\ \A a, b \in 1..Len(filterCalls) :
       a < b => \/ filterCalls[a].row < filterCalls[b].row
                \/ /\ filterCalls[a].row = filterCalls[b].row
                   /\ filterCalls[a].idx < filterCalls[b].idx

\* C7 witness: with a nil predicate and two predicates, the first data row was
\* rejected by the first predicate, which the second one would have kept, and
\* the second data row was kept and is the only record
C7_Witness ==
  /\ filterFunc = << "nil", "first", "second" >>
  /\ Len(decoded) = 2
  /\ ~Keep("first", decoded[1].rec) /\ Keep("second", decoded[1].rec)
  /\ KeptByAll(decoded[2].rec)
  /\ ts = << decoded[2].rec >>
  /\ Len(filterCalls) = 3

\* the columns of the sheet, 0-based
Columns == 0..(MaxCol - 1)
HeaderSet == {headers[c + 1] : c \in Columns}
\* the field of T tagged h has a conversion routine
Supported(h) ==
  \E i \in 1..NumField(T) :
     FieldsOf(T)[i].hasTag /\ FieldsOf(T)[i].tag = h /\ HasUnmarshalFunc(FieldsOf(T)[i].kind)
\* the binder fails at column c
Offending(c) ==
  \/ (headers[c + 1] \notin TagSet(T) /\ ~rc.SkipUnknownColumns)
  \/ (headers[c + 1] \in TagSet(T) /\ ~Supported(headers[c + 1]) /\ ~rc.SkipUnknownTypes)
BinderFailed ==
  /\ pc = "done" /\ result.err.tag = "error"
  /\ result.err.err \in {"ErrNoDestinationField", "ErrNoUnmarshaler"}

\* C8 as claimed: the plan has one entry per column, every header present in
\* the tag map is bound (the binder fails only for a header absent from the tag
\* map), the number of bound columns is the size of the intersection of the
\* header set and the tag set, and an absent header is a skip entry under
\* SkipUnknownColumns and otherwise fails the call with ErrNoDestinationField
\* for that header and index before any row is decoded.
C8_AsClaimed ==
  /\ PlanBuilt =>
       /\ Len(columnFields) = MaxCol
       /\ \A c \in Columns : headers[c + 1] \in TagSet(T) => columnFields[c + 1].bound
       /\ Cardinality({c \in Columns : columnFields[c + 1].bound})
            = Cardinality(HeaderSet \cap TagSet(T))
       /\ \A c \in Columns : headers[c + 1] \notin TagSet(T) =>
            (rc.SkipUnknownColumns /\ ~columnFields[c + 1].bound)
  /\ BinderFailed =>
       /\ result.err.err = "ErrNoDestinationField"
       /\ ~rc.SkipUnknownColumns
       /\ headers[result.err.index + 1] = result.err.header
       /\ result.err.header \notin TagSet(T)
       /\ decoded = <<>> /\ val = <<>>

\* C8 amended: the plan has one entry per column, carrying the column's header;
\* a column is bound exactly when its header is in the tag map and the tagged
\* field has a conversion routine, and then to that field; the number of bound
\* columns is the number of such columns (a repeated header counts each time);
\* an absent header is a skip entry only under SkipUnknownColumns and a header
\* whose field has no routine only under SkipUnknownTypes; the binder fails at
\* the first column that is neither, with ErrNoDestinationField (absent
\* header) or ErrNoUnmarshaler (no routine) naming that header and index,
\* before any row is decoded.
C8_BindingPlan ==
  /\ PlanBuilt =>
       /\ Len(columnFields) = MaxCol
       /\ \A c \in Columns :
            LET fi == columnFields[c + 1] IN
              /\ fi.header = headers[c + 1]
              /\ fi.bound <=> (fi.header \in TagSet(T) /\ Supported(fi.header))
              /\ fi.bound => (FieldAt(fi).hasTag /\ FieldAt(fi).tag = fi.header)
              /\ ~Offending(c)
       /\ Cardinality({c \in Columns : columnFields[c + 1].bound})
            = Cardinality({c \in Columns : headers[c + 1] \in TagSet(T)
                                            /\ Supported(headers[c + 1])})
  /\ BinderFailed =>
       LET c == result.err.index IN
         /\ c \in Columns
         /\ result.err.header = headers[c + 1]
         /\ Offending(c)
         /\ \A b \in 0..(c - 1) : ~Offending(b)
         /\ result.err.err = (IF headers[c + 1] \in TagSet(T) THEN "ErrNoUnmarshaler"
                              ELSE "ErrNoDestinationField")
         /\ result.ts = <<>> /\ decoded = <<>> /\ val = <<>> /\ ts = <<>>
  /\ (pc = "done" /\ result.err.tag # "error") => \A c \in Columns : ~Offending(c)

\* C8 witness: a complete plan with a bound column and a skipped unknown column
C8_Witness ==
  /\ PlanBuilt
  /\ \E c \in Columns : columnFields[c + 1].bound
  /\ \E c \in Columns : ~columnFields[c + 1].bound /\ headers[c + 1] \notin TagSet(T)

\* every field of the type is exported, tagged and of a supported primitive
\* kind, its nullable form, or date/time
RoundTripType(Ty) ==
  \A i \in 1..NumField(Ty) :
     LET f == FieldsOf(Ty)[i]
     IN  f.exported /\ f.hasTag /\ HasUnmarshalFunc(f.kind)
\* the sheet is the one write0 produces for the records, and the read side uses
\* the drop-list table of the write side
WrittenSheet ==
  /\ pc # "write"
  /\ sheet = write0(T, records, wc)
  /\ DOMAIN rc.DropListMap = DOMAIN wc.DropListMap

\* C9: decoding the sheet that write0 produced for a record sequence, under the
\* matching configuration, ends by returning no error and a sequence equal to
\* the records written, field for field and in the same order.
C9_RoundTrip ==
  (WrittenSheet /\ RoundTripType(T) /\ pc \in {"done", "panic"}) =>
    /\ pc = "done"
    /\ result.err.tag = "nil"
    /\ result.ts = records

\* the 1-based position in a written row of the cell of field f
ColumnOf(f) == Cardinality({j \in 1..f : Written(FieldsOf(T)[j], wc)})

\* C10: in a row written by write0, the cell of a string field, or of a non-nil
\* nullable-string field, whose tag has a drop-list entry holds the Value of a
\* pair of the entry whose Key is the field's value, and the field's value
\* itself when no pair has that Key; with no entry for the tag it holds the
\* field's value.
C10_DropListEncode ==
  (pc # "write" /\ records # <<>>) =>
    \A i \in 1..Len(records) : \A f \in 1..NumField(T) :
      LET fld == FieldsOf(T)[f]
          v == records[i][f]
      IN  (/\ Written(fld, wc)
           /\ (fld.kind = "string" \/ (fld.kind = "pstring" /\ v # Nil))) =>
            LET str == IF fld.kind = "pstring" THEN Deref(v) ELSE v
                text == sheet[i + 1][ColumnOf(f)]
            IN  IF TagOf(fld) \in DOMAIN wc.DropListMap
                THEN LET dl == wc.DropListMap[TagOf(fld)] IN
                       IF \E j \in 1..Len(dl) : dl[j].Key = str
                       THEN \E j \in 1..Len(dl) : dl[j].Key = str /\ text = dl[j].Value
                       ELSE text = str
                ELSE text = str

\* C10 witness: a written sheet in which the key "k1" of a drop-list column
\* was emitted as its display value, next to a key with no pair emitted as is
C10_Witness ==
  /\ pc # "write" /\ T = "Person" /\ Len(records) = 2
  /\ "name" \in DOMAIN wc.DropListMap
  /\ records[1][1] = "k1" /\ sheet[2][1] = "A"
  /\ records[2][1] = "x" /\ sheet[3][1] = "x"

\* the text is malformed for a field of kind k: no integer for an integer
\* field, no numeric date for a date/time field, neither a canonical boolean
\* text nor a localized token for a boolean field (any text is a string)
Malformed(k, text) ==
  CASE ElemKind(k) = "int" -> ~IsNumText(text)
    [] ElemKind(k) = "time" -> ~IsNumText(text)
    [] ElemKind(k) = "bool" ->
         text \notin (BoolTrueTexts \cup BoolFalseTexts \cup {ChineseTrue, ChineseFalse})
    [] OTHER -> FALSE
\* the cell p of a bound column holds a malformed text that the nil-on-empty
\* rule does not set aside
MalformedAt(p) ==
  /\ columnFields[p[2] + 1].bound
  /\ ~NilOnEmpty(p[1], p[2])
  /\ Malformed(DestKind(p[2]), CellValue(p[1], p[2]))

\* C11: under abort or collect, every visited cell of a bound column whose text
\* is malformed for its field's type (a nullable date/time field included) has
\* its FieldError built: under abort the call has returned that error, under
\* collect the error is among the collected ones; and a call that returns
\* records without error has read no malformed cell.
C11_MalformedCells ==
  (PlanBuilt /\ rc.UnmarshalErrorHandling \in {UnmarshalErrorAbort, UnmarshalErrorCollect}) =>
    /\ \A i \in 1..Len(DataCells) :
         LET p == DataCells[i] IN
           (Visited(p) /\ MalformedAt(p)) =>
             IF rc.UnmarshalErrorHandling = UnmarshalErrorAbort
             THEN pc = "done" /\ result.err = AbortError(ErrorOf(p))
             ELSE \E j \in 1..Len(collectedErrors) : collectedErrors[j] = ErrorOf(p)
    /\ (pc = "done" /\ result.err = NoError) =>
         \A i \in 1..Len(DataCells) : ~MalformedAt(DataCells[i])

\* the header write0 gives field f: its tag, or its name when it has no tag
FieldName(f) == IF f.hasTag THEN f.tag ELSE f.name
\* the fields write0 emits a column for under cfg, and the 1-based position of
\* the column of field f among them
WrittenFields(cfg) == {f \in 1..NumField(T) : Written(FieldsOf(T)[f], cfg)}
ColumnIn(f, cfg) == Cardinality({j \in WrittenFields(cfg) : j <= f})
\* the cell texts that render the value v of field f under cfg
Renderings(f, v, cfg) ==
  IF IsPtrKind(f.kind) /\ IsNil(v)
  THEN {IF cfg.SkipNilPointer THEN "" ELSE "<nil>"}
  ELSE LET e == IF IsPtrKind(f.kind) THEN Deref(v) ELSE v
           k == ElemKind(f.kind)
       IN  CASE k = "bool" ->
                  {IF cfg.ChineseBool THEN (IF e THEN ChineseTrue ELSE ChineseFalse)
                   ELSE (IF e THEN "true" ELSE "false")}
             [] k \in {"int", "time"} -> {FormatInt(e)}
             [] k = "string" ->
                  {e} \cup (IF HaveDropList(cfg.DropListMap, TagOf(f))
                            THEN {cfg.DropListMap[TagOf(f)][j].Value :
                                    j \in 1..Len(cfg.DropListMap[TagOf(f)])}
                            ELSE {})
             [] OTHER -> {"<nil>"}

\* C12: write0 leaves on the sheet exactly one header row and then one data row
\* per record in input order; the header row has one cell per written field, in
\* field order, holding the field's tag or name; every data row has as many
\* cells as the header row, and its cell at the position of a field's header is
\* a rendering of that field's value in that record (a nil pointer, a boolean
\* or a drop-list string takes exactly its own column); for an empty sequence
\* the header row is the only row.
C12_RowsAligned ==
  [][ pc = "write" =>
        LET cfg == ConfigureWith(records, wc)
            hdr == sheet'[1]
        IN  /\ Len(sheet') = 1 + Len(records)
            /\ Len(hdr) = Cardinality(WrittenFields(cfg))
            /\ \A f \in WrittenFields(cfg) : hdr[ColumnIn(f, cfg)] = FieldName(FieldsOf(T)[f])
            /\ \A i \in 1..Len(records) :
                 /\ Len(sheet'[i + 1]) = Len(hdr)
                 /\ \A f \in WrittenFields(cfg) :
                      sheet'[i + 1][ColumnIn(f, cfg)]
                        \in Renderings(FieldsOf(T)[f], records[i][f], cfg) ]_vars

\* C12 witness: a written sheet of two records of the nullable type under
\* SkipNilPointer, whose first record has nil pointers on both sides of a
\* non-nil one, each in its own column
C12_Witness ==
  /\ pc = "open" /\ T = "Staff" /\ wc.SkipNilPointer /\ Len(records) = 2
  /\ records[1] = << Nil, Ptr(1), Nil >>
  /\ Len(sheet) = 3
  /\ sheet[1] = << "name", "age", "active" >>
  /\ sheet[2] = << "", "1", "" >>

====
